---------------------------- MODULE Spec2Model ----------------------------
(***************************************************************************)
(* The validation-and-execution gateway of the SQLite agent:              *)
(* SqliteAgent.execute_prompt of src/code/main.py (three completion       *)
(* sub-calls: REASON, THINK, ACT) and of src/code/sample.py (one          *)
(* completion call), over the database seeded by _setup_database.         *)
(*                                                                         *)
(* A Python str is a sequence of one-character strings.  The characters   *)
(* "LF", "TAB" and "GRAVE" stand for line feed, tab and the grave accent, *)
(* "U+0130" for LATIN CAPITAL                                             *)
(* LETTER I WITH DOT ABOVE, "U+0131" for LATIN SMALL LETTER DOTLESS I and *)
(* "U+017F" for LATIN SMALL LETTER LONG S.                                *)
(***************************************************************************)
EXTENDS Integers, Sequences, FiniteSets, TLC

VARIABLES
    db,             \* the tables behind self.conn: catalog and rows
    table_names,    \* self.table_names
    impl,           \* which execute_prompt ran last: "none", "main", "sample"
    user_prompt,    \* the argument of the last execute_prompt
    subcalls,       \* values of the locals reason and think (main.py)
    sql_context,    \* the context sent with the call that generates the SQL
    act_answer,     \* how the service answered that call, if it was made
    generated_sql,  \* the local generated_sql, when the completion step returned
    decision,       \* "accepted", "rejected", or "none" when the gate was not reached
    executed,       \* statements passed to cursor.execute after the gate
    engine,         \* what cursor.execute did with the accepted statement
    log,            \* the text logged at the rejection (main.py line 138)
    result,         \* what execute_prompt returned or raised
    prev            \* the cycle before, kept when it gated the same text

vars == << db, table_names, impl, user_prompt, subcalls, sql_context,
           act_answer, generated_sql, decision, executed, engine, log, result, prev >>

\* Largest number of whitespace characters the completion service puts
\* before, and after, the text it generates.
MaxPad == 1

---------------------------------------------------------------------------
(* Python str operations                                                   *)

LowerAZ == <<"a", "b", "c", "d", "e", "f", "g", "h", "i", "j", "k", "l", "m", "n", "o", "p", "q", "r", "s", "t", "u", "v", "w", "x", "y", "z">>
UpperAZ == <<"A", "B", "C", "D", "E", "F", "G", "H", "I", "J", "K", "L", "M", "N", "O", "P", "Q", "R", "S", "T", "U", "V", "W", "X", "Y", "Z">>
Whitespace == {" ", "LF", "TAB"}

\* str.upper() on one character: ASCII letters, and the two non-ASCII
\* letters whose uppercase is an ASCII letter; U+0130 is its own uppercase.
ToUpperAZ ==
    [c \in {LowerAZ[i] : i \in 1..26} |->
        UpperAZ[CHOOSE i \in 1..26 : LowerAZ[i] = c]]
ToLowerAZ ==
    [c \in {UpperAZ[i] : i \in 1..26} |->
        LowerAZ[CHOOSE i \in 1..26 : UpperAZ[i] = c]]

UpperChar(c) ==
    IF c \in DOMAIN ToUpperAZ THEN ToUpperAZ[c]
    ELSE IF c = "U+0131" THEN "I"
    ELSE IF c = "U+017F" THEN "S"
    ELSE c

Upper(s) == [i \in 1..Len(s) |-> UpperChar(s[i])]

RECURSIVE LStrip(_)
LStrip(s) ==
    IF s # << >> /\ Head(s) \in Whitespace THEN LStrip(Tail(s)) ELSE s

RECURSIVE RStrip(_)
RStrip(s) ==
    IF s # << >> /\ s[Len(s)] \in Whitespace
    THEN RStrip(SubSeq(s, 1, Len(s) - 1))
    ELSE s

Strip(s) == RStrip(LStrip(s))

StartsWith(s, p) ==
    /\ Len(p) <= Len(s)
    /\ \A i \in 1..Len(p) : s[i] = p[i]

\* str.split(): the maximal runs of non-whitespace characters, in order.
RECURSIVE TakeWord(_)
TakeWord(s) ==
    IF s = << >> \/ Head(s) \in Whitespace THEN << >>
    ELSE << Head(s) >> \o TakeWord(Tail(s))

RECURSIVE Split(_)
Split(s) ==
    LET t == LStrip(s)
        w == TakeWord(t)
    IN  IF t = << >> THEN << >>
        ELSE << w >> \o Split(SubSeq(t, Len(w) + 1, Len(t)))

\* sep.join(parts)
RECURSIVE Join(_, _)
Join(sep, parts) ==
    IF parts = << >> THEN << >>
    ELSE IF Len(parts) = 1 THEN parts[1]
    ELSE parts[1] \o sep \o Join(sep, Tail(parts))

\* c * n for a one-character string c
Repeat(c, n) == [i \in 1..n |-> c]

\* str() of a non-negative int
RECURSIVE Digits(_)
Digits(n) ==
    LET d == <<"0", "1", "2", "3", "4", "5", "6", "7", "8", "9">>[(n % 10) + 1]
    IN  IF n < 10 THEN << d >> ELSE Digits(n \div 10) \o << d >>

---------------------------------------------------------------------------
(* re.compile(r"^(SELECT|PRAGMA TABLE_INFO|PRAGMA table_info)",            *)
(*            re.IGNORECASE).match                                         *)

\* The case folding the regex engine applies to a pattern character and to
\* a subject character under IGNORECASE: the simple lowercase mapping, which
\* sends U+0130 to "i", with U+0131 and U+017F equivalent to "i" and "s".
SreFold(c) ==
    IF c \in DOMAIN ToLowerAZ THEN ToLowerAZ[c]
    ELSE IF c \in {"U+0130", "U+0131"} THEN "i"
    ELSE IF c = "U+017F" THEN "s"
    ELSE c

AllowedAlternatives ==
    { <<"S", "E", "L", "E", "C", "T">>, <<"P", "R", "A", "G", "M", "A", " ", "T", "A", "B", "L", "E", "_", "I", "N", "F", "O">>, <<"P", "R", "A", "G", "M", "A", " ", "t", "a", "b", "l", "e", "_", "i", "n", "f", "o">> }

IgnoreCasePrefix(alt, s) ==
    /\ Len(alt) <= Len(s)
    /\ \A i \in 1..Len(alt) : SreFold(alt[i]) = SreFold(s[i])

allowed_pattern_match(s) ==
    \E alt \in AllowedAlternatives : IgnoreCasePrefix(alt, s)

---------------------------------------------------------------------------
(* Python values held in rows, and str() of them                           *)

PyInt(n) == [t |-> "int", n |-> n, s |-> << >>]
\* the float n.0
PyFloat(n) == [t |-> "float", n |-> n, s |-> << >>]
PyStr(s) == [t |-> "str", n |-> 0, s |-> s]
PyNone == [t |-> "None", n |-> 0, s |-> << >>]

Str(v) ==
    CASE v.t = "int" -> Digits(v.n)
      [] v.t = "float" -> Digits(v.n) \o <<".", "0">>
      [] v.t = "str" -> v.s
      [] v.t = "None" -> <<"N", "o", "n", "e">>

---------------------------------------------------------------------------
(* The database: _setup_database and the sqlite3 cursor                    *)

Column(name, type, notnull, pk) ==
    [name |-> name, type |-> type, notnull |-> notnull, pk |-> pk]

EmployeesColumns ==
    << Column(<<"e", "m", "p", "l", "o", "y", "e", "e", "_", "i", "d">>, <<"I", "N", "T", "E", "G", "E", "R">>, 0, 1),
       Column(<<"n", "a", "m", "e">>, <<"T", "E", "X", "T">>, 1, 0),
       Column(<<"d", "e", "p", "a", "r", "t", "m", "e", "n", "t">>, <<"T", "E", "X", "T">>, 0, 0),
       Column(<<"s", "a", "l", "a", "r", "y">>, <<"R", "E", "A", "L">>, 0, 0) >>

EmployeesRows ==
    << << PyInt(101), PyStr(<<"A", "l", "i", "c", "e", " ", "S", "m", "i", "t", "h">>), PyStr(<<"S", "a", "l", "e", "s">>), PyFloat(60000) >>,
       << PyInt(102), PyStr(<<"B", "o", "b", " ", "J", "o", "h", "n", "s", "o", "n">>), PyStr(<<"I", "T">>), PyFloat(75000) >>,
       << PyInt(103), PyStr(<<"C", "h", "a", "r", "l", "i", "e", " ", "B", "r", "o", "w", "n">>), PyStr(<<"S", "a", "l", "e", "s">>), PyFloat(62000) >>,
       << PyInt(104), PyStr(<<"D", "i", "a", "n", "a", " ", "P", "r", "i", "n", "c", "e">>), PyStr(<<"H", "R">>), PyFloat(55000) >>,
       << PyInt(105), PyStr(<<"C", "l", "a", "r", "k", " ", "K", "e", "n", "t">>), PyStr(<<"I", "T">>), PyFloat(80000) >> >>

DepartmentsColumns ==
    << Column(<<"d", "e", "p", "t", "_", "i", "d">>, <<"I", "N", "T", "E", "G", "E", "R">>, 0, 1),
       Column(<<"n", "a", "m", "e">>, <<"T", "E", "X", "T">>, 1, 0) >>

DepartmentsRows ==
    << << PyInt(1), PyStr(<<"S", "a", "l", "e", "s">>) >>,
       << PyInt(2), PyStr(<<"I", "T">>) >>,
       << PyInt(3), PyStr(<<"H", "R">>) >> >>

\* The state _setup_database commits: both tables, created and populated.
SetupDatabase ==
    (<<"E", "m", "p", "l", "o", "y", "e", "e", "s">> :> [columns |-> EmployeesColumns, rows |-> EmployeesRows])
    @@ (<<"D", "e", "p", "a", "r", "t", "m", "e", "n", "t", "s">> :> [columns |-> DepartmentsColumns,
                           rows |-> DepartmentsRows])

\* self.table_names = ['Employees', 'Departments']
SetupTableNames == << <<"E", "m", "p", "l", "o", "y", "e", "e", "s">>, <<"D", "e", "p", "a", "r", "t", "m", "e", "n", "t", "s">> >>

\* Table names are matched without regard to case.
HasTable(d, name) == \E k \in DOMAIN d : Upper(k) = Upper(name)
Resolve(d, name) == CHOOSE k \in DOMAIN d : Upper(k) = Upper(name)

\* The rows of PRAGMA table_info(table): one per column, none for a table
\* the catalog does not hold.
TableInfoHeader ==
    << <<"c", "i", "d">>, <<"n", "a", "m", "e">>, <<"t", "y", "p", "e">>, <<"n", "o", "t", "n", "u", "l", "l">>, <<"d", "f", "l", "t", "_", "v", "a", "l", "u", "e">>, <<"p", "k">> >>

TableInfoRows(d, table) ==
    IF HasTable(d, table)
    THEN LET cols == d[Resolve(d, table)].columns
         IN  [i \in 1..Len(cols) |->
                << PyInt(i - 1), PyStr(cols[i].name), PyStr(cols[i].type),
                   PyInt(cols[i].notnull), PyNone, PyInt(cols[i].pk) >>]
    ELSE << >>

ColumnIndex(columns, name) ==
    CHOOSE i \in 1..Len(columns) : columns[i].name = name

RECURSIVE SelectSeq2(_, _, _)
\* the rows of rows whose column at index k equals val, in order
SelectSeq2(rows, k, val) ==
    IF rows = << >> THEN << >>
    ELSE (IF Head(rows)[k] = val THEN << Head(rows) >> ELSE << >>)
         \o SelectSeq2(Tail(rows), k, val)

---------------------------------------------------------------------------
(* sqlite3: what cursor.execute does with each statement text the          *)
(* completion service is taken to generate                                 *)

NoPlan ==
    [k |-> "error", table |-> << >>, cols |-> << >>, where |-> << >>,
     set |-> << >>, header |-> << >>, rows |-> << >>,
     cls |-> "OperationalError", msg |-> <<"s", "y", "n", "t", "a", "x", " ", "e", "r", "r", "o", "r">>]

SelectPlan(table, cols, where, missing) ==
    [NoPlan EXCEPT !.k = "select", !.table = table, !.cols = cols,
                   !.where = where, !.msg = missing]
TableInfoPlan(table) == [NoPlan EXCEPT !.k = "table_info", !.table = table]
ValuesPlan(header, rows) ==
    [NoPlan EXCEPT !.k = "values", !.header = header, !.rows = rows]
NoRowsPlan == [NoPlan EXCEPT !.k = "norows"]
UpdatePlan(table, set, where) ==
    [NoPlan EXCEPT !.k = "update", !.table = table, !.set = set,
                   !.where = where]
DropPlan(table) == [NoPlan EXCEPT !.k = "drop", !.table = table]
ErrorPlan(cls, msg) == [NoPlan EXCEPT !.cls = cls, !.msg = msg]

SqlScenarioA == <<"S", "E", "L", "E", "C", "T", " ", "n", "a", "m", "e", ",", " ", "s", "a", "l", "a", "r", "y", " ", "F", "R", "O", "M", " ", "E", "m", "p", "l", "o", "y", "e", "e", "s", " ", "L", "I", "M", "I", "T", " ", "1", "0", "0">>
SqlScenarioB == <<"U", "P", "D", "A", "T", "E", " ", "E", "m", "p", "l", "o", "y", "e", "e", "s", " ", "S", "E", "T", " ", "s", "a", "l", "a", "r", "y", "=", "1", "0", "0", "0", "0", "0", " ", "W", "H", "E", "R", "E", " ", "n", "a", "m", "e", "=", "'", "B", "o", "b", " ", "J", "o", "h", "n", "s", "o", "n", "'">>
SqlScenarioC == <<"P", "R", "A", "G", "M", "A", " ", "T", "A", "B", "L", "E", "_", "I", "N", "F", "O", "(", "D", "e", "p", "a", "r", "t", "m", "e", "n", "t", "s", ")">>
SqlScenarioD == <<"S", "E", "L", "E", "C", "T", " ", "*", " ", "F", "R", "O", "M", " ", "E", "m", "p", "l", "o", "y", "e", "e", "s", " ", "W", "H", "E", "R", "E", " ", "d", "e", "p", "a", "r", "t", "m", "e", "n", "t", "=", "'", "E", "n", "g", "i", "n", "e", "e", "r", "i", "n", "g", "'", " ", "L", "I", "M", "I", "T", " ", "1", "0", "0">>
SqlLowerCase == <<"s", "e", "l", "e", "c", "t", " ", "*", " ", "f", "r", "o", "m", " ", "D", "e", "p", "a", "r", "t", "m", "e", "n", "t", "s", " ", "l", "i", "m", "i", "t", " ", "1", "0", "0">>
SqlInfoMissing == <<"p", "r", "a", "g", "m", "a", " ", "t", "a", "b", "l", "e", "_", "i", "n", "f", "o", "(", "P", "r", "o", "j", "e", "c", "t", "s", ")">>
SqlInfoX == <<"P", "R", "A", "G", "M", "A", " ", "t", "a", "b", "l", "e", "_", "i", "n", "f", "o", "x", "(", "E", "m", "p", "l", "o", "y", "e", "e", "s", ")">>
SqlInfoDotted == <<"P", "R", "A", "G", "M", "A", " ", "T", "A", "B", "L", "E", "_", "U+0130", "N", "F", "O", "(", "E", "m", "p", "l", "o", "y", "e", "e", "s", ")">>
SqlNoTable == <<"S", "E", "L", "E", "C", "T", " ", "*", " ", "F", "R", "O", "M", " ", "P", "r", "o", "j", "e", "c", "t", "s", " ", "L", "I", "M", "I", "T", " ", "1", "0", "0">>
SqlStacked == <<"S", "E", "L", "E", "C", "T", " ", "n", "a", "m", "e", " ", "F", "R", "O", "M", " ", "E", "m", "p", "l", "o", "y", "e", "e", "s", ";", " ", "D", "R", "O", "P", " ", "T", "A", "B", "L", "E", " ", "E", "m", "p", "l", "o", "y", "e", "e", "s">>
SqlIncomplete == <<"S", "E", "L", "E", "C", "T">>
SqlBarValue == <<"S", "E", "L", "E", "C", "T", " ", "'", "a", " ", "|", " ", "b", "'", " ", "A", "S", " ", "x">>
SqlBarName == <<"S", "E", "L", "E", "C", "T", " ", "1", " ", "A", "S", " ", "'", "x", " ", "|", " ", "y", "'">>
SqlLineValue == <<"S", "E", "L", "E", "C", "T", " ", "'", "p", "LF", "q", "'", " ", "A", "S", " ", "x">>
SqlDrop == <<"D", "R", "O", "P", " ", "T", "A", "B", "L", "E", " ", "E", "m", "p", "l", "o", "y", "e", "e", "s">>
SqlDescribe == <<"D", "E", "S", "C", "R", "I", "B", "E", " ", "E", "m", "p", "l", "o", "y", "e", "e", "s">>
SqlOtherPragma == <<"P", "R", "A", "G", "M", "A", " ", "f", "o", "r", "e", "i", "g", "n", "_", "k", "e", "y", "s">>
SqlFenced == <<"GRAVE", "GRAVE", "GRAVE", "s", "q", "l", "LF", "S", "E", "L", "E", "C", "T", " ", "n", "a", "m", "e", " ", "F", "R", "O", "M", " ", "E", "m", "p", "l", "o", "y", "e", "e", "s", " ", "L", "I", "M", "I", "T", " ", "1", "0", "0", "LF", "GRAVE", "GRAVE", "GRAVE">>
SqlEmpty == << >>

\* "ERROR: API Call Failed" (main.py line 92)
MainSentinel == <<"E", "R", "R", "O", "R", ":", " ", "A", "P", "I", " ", "C", "a", "l", "l", " ", "F", "a", "i", "l", "e", "d">>
\* f"ERROR: Could not generate SQL due to API issue: {e}" (sample.py line 124)
SampleSentinel(e) == <<"E", "R", "R", "O", "R", ":", " ", "C", "o", "u", "l", "d", " ", "n", "o", "t", " ", "g", "e", "n", "e", "r", "a", "t", "e", " ", "S", "Q", "L", " ", "d", "u", "e", " ", "t", "o", " ", "A", "P", "I", " ", "i", "s", "s", "u", "e", ":", " ">> \o e

Catalogue ==
    { << SqlScenarioA,
         SelectPlan(<<"E", "m", "p", "l", "o", "y", "e", "e", "s">>, << <<"n", "a", "m", "e">>, <<"s", "a", "l", "a", "r", "y">> >>, << >>, << >>) >>,
      << SqlScenarioB,
         UpdatePlan(<<"E", "m", "p", "l", "o", "y", "e", "e", "s">>, << <<"s", "a", "l", "a", "r", "y">>, PyInt(100000) >>,
                    << <<"n", "a", "m", "e">>, PyStr(<<"B", "o", "b", " ", "J", "o", "h", "n", "s", "o", "n">>) >>) >>,
      << SqlScenarioD,
         SelectPlan(<<"E", "m", "p", "l", "o", "y", "e", "e", "s">>, << >>,
                    << <<"d", "e", "p", "a", "r", "t", "m", "e", "n", "t">>, PyStr(<<"E", "n", "g", "i", "n", "e", "e", "r", "i", "n", "g">>) >>, << >>) >>,
      << SqlLowerCase, SelectPlan(<<"D", "e", "p", "a", "r", "t", "m", "e", "n", "t", "s">>, << >>, << >>, << >>) >>,
      << SqlInfoX, NoRowsPlan >>,
      << SqlInfoDotted, NoRowsPlan >>,
      << SqlNoTable,
         SelectPlan(<<"P", "r", "o", "j", "e", "c", "t", "s">>, << >>, << >>, <<"n", "o", " ", "s", "u", "c", "h", " ", "t", "a", "b", "l", "e", ":", " ", "P", "r", "o", "j", "e", "c", "t", "s">>) >>,
      << SqlStacked,
         ErrorPlan("ProgrammingError",
                   <<"Y", "o", "u", " ", "c", "a", "n", " ", "o", "n", "l", "y", " ", "e", "x", "e", "c", "u", "t", "e", " ", "o", "n", "e", " ", "s", "t", "a", "t", "e", "m", "e", "n", "t", " ", "a", "t", " ", "a", " ", "t", "i", "m", "e", ".">>) >>,
      << SqlIncomplete, ErrorPlan("OperationalError", <<"i", "n", "c", "o", "m", "p", "l", "e", "t", "e", " ", "i", "n", "p", "u", "t">>) >>,
      << SqlBarValue, ValuesPlan(<< <<"x">> >>, << << PyStr(<<"a", " ", "|", " ", "b">>) >> >>) >>,
      << SqlBarName, ValuesPlan(<< <<"x", " ", "|", " ", "y">> >>, << << PyInt(1) >> >>) >>,
      << SqlLineValue, ValuesPlan(<< <<"x">> >>, << << PyStr(<<"p", "LF", "q">>) >> >>) >>,
      << SqlDrop, DropPlan(<<"E", "m", "p", "l", "o", "y", "e", "e", "s">>) >>,
      << SqlOtherPragma,
         ValuesPlan(<< <<"f", "o", "r", "e", "i", "g", "n", "_", "k", "e", "y", "s">> >>, << << PyInt(0) >> >>) >>,
      << SqlEmpty, NoRowsPlan >> }

\* PRAGMA table_info(<table>), the keywords in any case
IsTableInfo(sql) ==
    /\ StartsWith(Upper(sql), <<"P", "R", "A", "G", "M", "A", " ", "T", "A", "B", "L", "E", "_", "I", "N", "F", "O", "(">>)
    /\ sql[Len(sql)] = ")"
TableInfoArgument(sql) == SubSeq(sql, Len(<<"P", "R", "A", "G", "M", "A", " ", "T", "A", "B", "L", "E", "_", "I", "N", "F", "O", "(">>) + 1, Len(sql) - 1)

\* An engine entered through cursor.executescript: every statement of a
\* script runs, so of the stacked text the DROP takes effect.
PlanOf_executescript(sql) ==
    IF sql = SqlStacked THEN DropPlan(<<"E", "m", "p", "l", "o", "y", "e", "e", "s">>)
    ELSE IF IsTableInfo(sql) THEN TableInfoPlan(TableInfoArgument(sql))
    ELSE IF \E e \in Catalogue : e[1] = sql
    THEN (CHOOSE e \in Catalogue : e[1] = sql)[2]
    ELSE NoPlan

\* Anything else the model generates (DESCRIBE ..., the sentinel texts, a
\* fenced answer) is no SQL statement: a syntax error of the engine.
PlanOf(sql) ==
    IF IsTableInfo(sql) THEN TableInfoPlan(TableInfoArgument(sql))
    ELSE IF \E e \in Catalogue : e[1] = sql
    THEN (CHOOSE e \in Catalogue : e[1] = sql)[2]
    ELSE NoPlan

\* The classes of sqlite3 below sqlite3.Error
Sqlite3Errors ==
    { "Error", "InterfaceError", "DatabaseError", "DataError",
      "OperationalError", "IntegrityError", "InternalError",
      "ProgrammingError", "NotSupportedError" }

Executed(d, hasDescription, description, rows) ==
    [db |-> d, raised |-> FALSE, cls |-> "", msg |-> << >>,
     hasDescription |-> hasDescription, description |-> description,
     rows |-> rows]

Failed(d, cls, msg) ==
    [db |-> d, raised |-> TRUE, cls |-> cls, msg |-> msg,
     hasDescription |-> FALSE, description |-> << >>, rows |-> << >>]

\* cursor.execute(sql) followed by cursor.description and cursor.fetchall():
\* description is None (hasDescription FALSE) for a statement that returns
\* no result set.
CursorExecute(d, sql) ==
    LET p == PlanOf(sql)
        known == HasTable(d, p.table)
        tbl == Resolve(d, p.table)
        cols == d[tbl].columns
        names == [i \in 1..Len(cols) |-> cols[i].name]
        picked == IF p.cols = << >> THEN names ELSE p.cols
        kept == IF p.where = << >> THEN d[tbl].rows
                ELSE SelectSeq2(d[tbl].rows,
                                ColumnIndex(cols, p.where[1]), p.where[2])
        project(row) ==
            [j \in 1..Len(picked) |-> row[ColumnIndex(cols, picked[j])]]
        updated ==
            [i \in 1..Len(d[tbl].rows) |->
                LET row == d[tbl].rows[i]
                IN  IF row[ColumnIndex(cols, p.where[1])] = p.where[2]
                    THEN [row EXCEPT ![ColumnIndex(cols, p.set[1])] = p.set[2]]
                    ELSE row]
    IN  CASE p.k = "error" -> Failed(d, p.cls, p.msg)
          [] p.k \in {"select", "update", "drop"} /\ ~known ->
                Failed(d, "OperationalError", p.msg)
          [] p.k = "select" /\ known ->
                Executed(d, TRUE, picked,
                         [i \in 1..Len(kept) |-> project(kept[i])])
          [] p.k = "table_info" ->
                Executed(d, TRUE, TableInfoHeader, TableInfoRows(d, p.table))
          [] p.k = "values" -> Executed(d, TRUE, p.header, p.rows)
          [] p.k = "norows" -> Executed(d, FALSE, << >>, << >>)
          [] p.k = "update" /\ known ->
                Executed([d EXCEPT ![tbl].rows = updated],
                         FALSE, << >>, << >>)
          [] p.k = "drop" /\ known ->
                Executed([t \in DOMAIN d \ {tbl} |-> d[t]],
                         FALSE, << >>, << >>)

---------------------------------------------------------------------------
(* SqliteAgent._get_schema_description                                     *)

\* f"PRAGMA table_info({table})", executed on the agent's cursor; col[1] and
\* col[2] are the name and the declared type.
SchemaColumns(d, table) ==
    LET info == CursorExecute(d, <<"P", "R", "A", "G", "M", "A", " ", "t", "a", "b", "l", "e", "_", "i", "n", "f", "o", "(">> \o table \o <<")">>).rows
    IN  [i \in 1..Len(info) |-> info[i][2].s \o <<" ", "(">> \o info[i][3].s \o <<")">>]

SchemaPart(d, table) ==
    <<"T", "a", "b", "l", "e", " ", "*", "*">> \o table \o <<"*", "*", ":", " ", "(">> \o Join(<<",", " ">>, SchemaColumns(d, table)) \o <<")">>

get_schema_description(d, names) ==
    Join(<<"LF">>, [i \in 1..Len(names) |-> SchemaPart(d, names[i])])

---------------------------------------------------------------------------
(* The completion service and the two requesters                           *)

\* What client.models.generate_content does: it returns a response whose
\* text is a str, or whose text is None (no candidate came back), or it
\* raises APIError (the service answered with an error status), or it raises
\* an exception of the transport, which is no APIError.
TextResponse(text) == [kind |-> "text", text |-> text]
NoTextResponse == [kind |-> "no_text", text |-> << >>]
ApiErrorResponse(e) == [kind |-> "APIError", text |-> e]
TransportFailure == [kind |-> "ConnectError", text |-> << >>]
\* No answer: the call was never made.
NotAsked == [kind |-> "not_asked", text |-> << >>]

Returned(value) == [raised |-> FALSE, exc |-> "", value |-> value]
Raised(exc) == [raised |-> TRUE, exc |-> exc, value |-> << >>]

\* The try/except of both requesters: response.text.strip() on a str,
\* AttributeError on None; except APIError catches APIError alone.
Requester(response, sentinel) ==
    CASE response.kind = "text" -> Returned(Strip(response.text))
      [] response.kind = "no_text" -> Raised("AttributeError")
      [] response.kind = "APIError" -> Returned(sentinel)
      [] OTHER -> Raised(response.kind)

\* main.py: _llm_call
llm_call(response) == Requester(response, MainSentinel)

\* sample.py: the try/except of _generate_sql
generate_sql_call(response) ==
    Requester(response, SampleSentinel(response.text))

\* An f-string is kept as its parts in order: the literal text between the
\* replacement fields (a grave accent written {GRAVE}), and the values put in
\* their place.
Lit(text) == [lit |-> text, val |-> << >>]
Val(chars) == [lit |-> "", val |-> chars]

\* main.py lines 103-108
reason_context(schema) ==
    << Lit("\n"),
       Lit("        **ROLE:** You are the **REASON** component of an SQL agent. \n"),
       Lit("        **SCHEMA:** "),
       Val(schema),
       Lit("\n"),
       Lit("        **TASK:** Explain, in a single sentence, which table(s) contain the necessary data to answer the user request.\n"),
       Lit("        **OUTPUT FORMAT:** Respond ONLY with the reasoning sentence.\n"),
       Lit("        ") >>

\* main.py lines 113-117: no {schema}, no {reason}
think_context ==
    << Lit("\n"),
       Lit("        **ROLE:** You are the **THINK** component of an SQL agent.\n"),
       Lit("        **TASK:** Explain, in a single sentence, the logical steps required to construct the query (e.g., 'I must filter by X and order by Y'). Use the schema and the previous REASON step as context.\n"),
       Lit("        **OUTPUT FORMAT:** Respond ONLY with the thinking sentence.\n"),
       Lit("        ") >>

\* main.py lines 122-127: no {schema}
main_sql_context ==
    << Lit("\n"),
       Lit("        **ROLE:** You are the **ACTION** component of an SQL agent.\n"),
       Lit("        **STRICT RULES:** 1. ONLY generate a valid SELECT or PRAGMA statement. 2. REJECT DML/DDL. 3. All SELECTs MUST include LIMIT 100.\n"),
       Lit("        **TASK:** Generate the final, executable, and constrained SQLite SQL query.\n"),
       Lit("        **OUTPUT FORMAT:** Respond ONLY with the SQL query text.\n"),
       Lit("        ") >>

\* sample.py lines 98-109
system_prompt(schema) ==
    << Lit("\n"),
       Lit("        You are a View-Only SQL Generator. Your task is to translate the user's request into a single, valid SQLite SQL query.\n"),
       Lit("\n"),
       Lit("        **CURRENT DATABASE SCHEMA:**\n"),
       Lit("        "),
       Val(schema),
       Lit("\n"),
       Lit("\n"),
       Lit("        **STRICT RULES:**\n"),
       Lit("        1.  **ONLY SELECT/DESCRIBE:** Your output MUST ONLY be a valid {GRAVE}SELECT{GRAVE} statement or a SQLite {GRAVE}PRAGMA table_info(<table_name>){GRAVE} statement (which serves as the 'DESCRIBE TABLE' equivalent).\n"),
       Lit("        2.  **REJECT DML/DDL:** You MUST reject and refuse to generate any query that is NOT {GRAVE}SELECT{GRAVE} or {GRAVE}PRAGMA table_info{GRAVE}. This includes INSERT, UPDATE, DELETE, DROP, ALTER, etc.\n"),
       Lit("        3.  **LIMIT 100:** All {GRAVE}SELECT{GRAVE} queries MUST include {GRAVE}LIMIT 100{GRAVE} at the end.\n"),
       Lit("        4.  **OUTPUT FORMAT:** Respond ONLY with the SQL query text. Do not include any explanations, Markdown formatting (e.g., {GRAVE}{GRAVE}{GRAVE}sql{GRAVE}), or extra text.\n"),
       Lit("        ") >>

\* What goes to the service with one call: main.py sends the context and the
\* request as the contents, sample.py the context as the system instruction.
MainRequest(context, prompt) ==
    [system |-> << >>,
     contents |-> context \o << Lit("\n\nUser Request: "), Val(prompt) >>]
SampleRequest(context, prompt) ==
    [system |-> context, contents |-> << Val(prompt) >>]

NoRequest == [system |-> << >>, contents |-> << >>]

---------------------------------------------------------------------------
(* The gate, the execution and the formatting of execute_prompt            *)

\* What execute_prompt returns or raises.
ReturnStr(site, text) ==
    [kind |-> "return", type |-> "str", site |-> site, text |-> text,
     rows |-> << >>]
ReturnList(rows) ==
    [kind |-> "return", type |-> "list", site |-> "results", text |-> << >>,
     rows |-> rows]
Raise(exc) ==
    [kind |-> "raise", type |-> exc, site |-> "", text |-> << >>,
     rows |-> << >>]
NoResult ==
    [kind |-> "none", type |-> "", site |-> "", text |-> << >>, rows |-> << >>]

\* normalized_sql = generated_sql.upper().strip()
normalized_sql(sql) == Strip(Upper(sql))

\* The locals of execute_prompt in scope at the gate; sample.py has no
\* reason and no think.
Locals(reason, think, sql) ==
    [reason |-> reason, think |-> think, generated_sql |-> sql]

\* A gate that also rejects when the REASON sub-call came back with the
\* sentinel text.
gate_accepts_unless_reason_failed(locals) ==
    /\ locals.reason # MainSentinel
    /\ allowed_pattern_match(normalized_sql(locals.generated_sql))

\* not (not allowed_pattern.match(normalized_sql))
gate_accepts(locals) ==
    allowed_pattern_match(normalized_sql(locals.generated_sql))

\* Executing the text the gate classified instead of the text generated.
statement_to_execute_normalized(locals) ==
    normalized_sql(locals.generated_sql)

\* The statement handed to cursor.execute once the gate has accepted.
statement_to_execute(locals) == locals.generated_sql

\* A handler for sqlite3.OperationalError alone.
except_sqlite3_OperationalError(cls) == cls = "OperationalError"

\* except sqlite3.Error
except_sqlite3_Error(cls) == cls \in Sqlite3Errors

MainRejection == <<"Q", "u", "e", "r", "y", " ", "r", "e", "j", "e", "c", "t", "e", "d", ".", " ", "A", "g", "e", "n", "t", " ", "i", "s", " ", "r", "e", "s", "t", "r", "i", "c", "t", "e", "d", " ", "t", "o", " ", "S", "E", "L", "E", "C", "T", "/", "D", "E", "S", "C", "R", "I", "B", "E", " ", "o", "n", "l", "y", ".">>
SampleRejection ==
    <<"Q", "u", "e", "r", "y", " ", "r", "e", "j", "e", "c", "t", "e", "d", ".", " ", "T", "h", "i", "s", " ", "a", "g", "e", "n", "t", " ", "i", "s", " ", "r", "e", "s", "t", "r", "i", "c", "t", "e", "d", " ", "t", "o", " ", "S", "E", "L", "E", "C", "T", " ", "a", "n", "d", " ", "D", "E", "S", "C", "R", "I", "B", "E", " ", "T", "A", "B", "L", "E", " ", "o", "p", "e", "r", "a", "t", "i", "o", "n", "s", " ", "o", "n", "l", "y", ".">>
NoResultsMessage == <<"N", "o", " ", "r", "e", "s", "u", "l", "t", "s", " ", "f", "o", "u", "n", "d", " ", "f", "o", "r", " ", "y", "o", "u", "r", " ", "q", "u", "e", "r", "y", ".">>
ErrorMessage(e) == <<"E", "r", "r", "o", "r", " ", "e", "x", "e", "c", "u", "t", "i", "n", "g", " ", "S", "Q", "L", ":", " ">> \o e

\* main.py line 138: the f-string of the log call is evaluated before the
\* return; normalized_sql.split()[0] raises IndexError on an empty split.
main_reject(normalized) ==
    IF Split(normalized) = << >>
    THEN [log |-> << >>, result |-> Raise("IndexError")]
    ELSE [log |-> <<"E", "X", "E", "C", "U", "T", "E", " ", "F", "A", "I", "L", "U", "R", "E", ":", " ", "S", "e", "c", "u", "r", "i", "t", "y", " ", "r", "e", "j", "e", "c", "t", "i", "o", "n", " ", "o", "f", " ", "u", "n", "a", "u", "t", "h", "o", "r", "i", "z", "e", "d", " ", "c", "o", "m", "m", "a", "n", "d", ":", " ">>
                  \o Split(normalized)[1] \o <<".">>,
          result |-> ReturnStr("rejected", MainRejection)]

sample_reject ==
    [log |-> << >>, result |-> ReturnStr("rejected", SampleRejection)]

StrRow(row) == [j \in 1..Len(row) |-> Str(row[j])]

\* main.py lines 156-164
format_main(header, results) ==
    LET head == <<"|", " ">> \o Join(<<" ", "|", " ">>, header) \o <<" ", "|">>
        rule == <<"|">> \o Repeat("-", Len(head) - 2) \o <<"|">>
        line(row) == <<"|", " ">> \o Join(<<" ", "|", " ">>, StrRow(row)) \o <<" ", "|">>
        output == << head, rule >>
                  \o [i \in 1..Len(results) |-> line(results[i])]
    IN  <<"LF", "LF", "F", "I", "N", "A", "L", " ", "A", "N", "S", "W", "E", "R", ":", "LF">> \o Join(<<"LF">>, output)

\* sample.py lines 167-172
format_sample(header, results) ==
    LET head == Join(<<" ", "|", " ">>, header)
        rule == Repeat("-", Len(head))
        output == << head, rule >>
                  \o [i \in 1..Len(results) |-> Join(<<" ", "|", " ">>, StrRow(results[i]))]
    IN  Join(<<"LF">>, output)

\* main.py lines 143-168: iterating cursor.description raises TypeError when
\* it is None.
main_observe(e) ==
    IF e.raised
    THEN IF except_sqlite3_Error(e.cls)
         THEN ReturnStr("error", ErrorMessage(e.msg))
         ELSE Raise(e.cls)
    ELSE IF ~e.hasDescription THEN Raise("TypeError")
    ELSE IF e.rows = << >> THEN ReturnStr("no_results", NoResultsMessage)
    ELSE ReturnStr("table", format_main(e.description, e.rows))

\* sample.py lines 145-176
sample_observe(e, normalized) ==
    IF e.raised
    THEN IF except_sqlite3_Error(e.cls)
         THEN ReturnStr("error", ErrorMessage(e.msg))
         ELSE Raise(e.cls)
    ELSE IF ~e.hasDescription THEN Raise("TypeError")
    ELSE IF StartsWith(normalized, <<"P", "R", "A", "G", "M", "A">>) THEN ReturnList(e.rows)
    ELSE IF e.rows = << >> THEN ReturnStr("no_results", NoResultsMessage)
    ELSE ReturnStr("table", format_sample(e.description, e.rows))

NoEngine ==
    [raised |-> FALSE, cls |-> "", msg |-> << >>, hasDescription |-> FALSE,
     description |-> << >>, rows |-> << >>]
EngineOf(e) ==
    [raised |-> e.raised, cls |-> e.cls, msg |-> e.msg,
     hasDescription |-> e.hasDescription, description |-> e.description,
     rows |-> e.rows]

\* One request cycle, as the values the state takes after it.
Cycle(d, subs, request, sql, dec, stmts, eng, lg, res) ==
    [db |-> d, subcalls |-> subs, sql_context |-> request,
     generated_sql |-> sql, decision |-> dec, executed |-> stmts,
     engine |-> eng, log |-> lg, result |-> res]

\* Gate, execution and formatting, from the locals on (main.py lines 133-168)
main_gate_and_execute(d, subs, request, locals) ==
    LET sql == locals.generated_sql
        rejection == main_reject(normalized_sql(sql))
        stmt == statement_to_execute(locals)
        e == CursorExecute(d, stmt)
    IN  IF ~gate_accepts(locals)
        THEN Cycle(d, subs, request, << sql >>, "rejected", << >>, NoEngine,
                   rejection.log, rejection.result)
        ELSE Cycle(e.db, subs, request, << sql >>, "accepted", << stmt >>,
                   EngineOf(e), << >>, main_observe(e))

\* sample.py lines 134-176
sample_gate_and_execute(d, request, locals) ==
    LET sql == locals.generated_sql
        stmt == statement_to_execute(locals)
        e == CursorExecute(d, stmt)
    IN  IF ~gate_accepts(locals)
        THEN Cycle(d, << >>, request, << sql >>, "rejected", << >>, NoEngine,
                   sample_reject.log, sample_reject.result)
        ELSE Cycle(e.db, << >>, request, << sql >>, "accepted", << stmt >>,
                   EngineOf(e), << >>,
                   sample_observe(e, normalized_sql(sql)))

\* main.py: execute_prompt.  An exception of a sub-call leaves the method.
main_execute_prompt(d, names, prompt, r_reason, r_think, r_act) ==
    LET schema == get_schema_description(d, names)
        reason == llm_call(r_reason)
        think == llm_call(r_think)
        act == llm_call(r_act)
        request == MainRequest(main_sql_context, prompt)
    IN  IF reason.raised
        THEN Cycle(d, << >>, NoRequest, << >>, "none", << >>, NoEngine, << >>,
                   Raise(reason.exc))
        ELSE IF think.raised
        THEN Cycle(d, << reason.value >>, NoRequest, << >>, "none", << >>,
                   NoEngine, << >>, Raise(think.exc))
        ELSE IF act.raised
        THEN Cycle(d, << reason.value, think.value >>, request, << >>, "none",
                   << >>, NoEngine, << >>, Raise(act.exc))
        ELSE main_gate_and_execute(d, << reason.value, think.value >>, request,
                 Locals(reason.value, think.value, act.value))

\* sample.py: execute_prompt, with _generate_sql
sample_execute_prompt(d, names, prompt, r_act) ==
    LET schema == get_schema_description(d, names)
        act == generate_sql_call(r_act)
        request == SampleRequest(system_prompt(schema), prompt)
    IN  IF act.raised
        THEN Cycle(d, << >>, request, << >>, "none", << >>, NoEngine, << >>,
                   Raise(act.exc))
        ELSE sample_gate_and_execute(d, request,
                 Locals(<< >>, << >>, act.value))

---------------------------------------------------------------------------
(* The environment: user requests and answers of the completion service    *)

Prompts ==
    { <<"W", "h", "o", " ", "i", "s", " ", "t", "h", "e", " ", "h", "i", "g", "h", "e", "s", "t", " ", "p", "a", "i", "d", " ", "e", "m", "p", "l", "o", "y", "e", "e", " ", "a", "n", "d", " ", "w", "h", "a", "t", " ", "i", "s", " ", "t", "h", "e", "i", "r", " ", "s", "a", "l", "a", "r", "y", "?">>,
      <<"U", "p", "d", "a", "t", "e", " ", "B", "o", "b", " ", "J", "o", "h", "n", "s", "o", "n", "'", "s", " ", "s", "a", "l", "a", "r", "y", " ", "t", "o", " ", "1", "0", "0", "0", "0", "0", ".">> }

\* Whitespace the service puts around its text: up to MaxPad characters.
Padded(body) == { Repeat(" ", k) \o body \o Repeat("LF", k) : k \in 0..MaxPad }

Statements ==
    { SqlScenarioA, SqlScenarioB, SqlScenarioC, SqlScenarioD, SqlLowerCase,
      SqlInfoMissing, SqlInfoX, SqlInfoDotted, SqlNoTable, SqlStacked,
      SqlIncomplete, SqlBarValue, SqlBarName, SqlLineValue, SqlDrop,
      SqlDescribe, SqlOtherPragma, SqlFenced, SqlEmpty }

ApiErrorText == <<"5", "0", "3", " ", "U", "N", "A", "V", "A", "I", "L", "A", "B", "L", "E">>

Failures == { NoTextResponse, ApiErrorResponse(ApiErrorText), TransportFailure }
SubFailures == { ApiErrorResponse(ApiErrorText), TransportFailure }

\* Answers to the call that generates the SQL
ActResponses ==
    UNION { { TextResponse(text) : text \in Padded(body) } :
            body \in Statements }
    \cup Failures

\* Answers to the REASON and THINK sub-calls
SubResponses ==
    { TextResponse(<<"T", "h", "e", " ", "E", "m", "p", "l", "o", "y", "e", "e", "s", " ", "t", "a", "b", "l", "e", " ", "h", "o", "l", "d", "s", " ", "t", "h", "e", " ", "d", "a", "t", "a", ".">>) } \cup SubFailures

---------------------------------------------------------------------------
(* The state machine                                                       *)

\* The cycle before is remembered when it and the new cycle both reached
\* the gate with the same statement text: its decision, and whether its
\* sub-calls returned other values than the new cycle's.
NoPrev == [same |-> FALSE, other_subcalls |-> FALSE, decision |-> "none"]

Remember(c) ==
    IF decision # "none" /\ c.decision # "none"
       /\ c.generated_sql = generated_sql
    THEN [same |-> TRUE, other_subcalls |-> subcalls # c.subcalls,
          decision |-> decision]
    ELSE NoPrev

Init ==
    /\ db = SetupDatabase
    /\ table_names = SetupTableNames
    /\ impl = "none"
    /\ user_prompt = << >>
    /\ subcalls = << >>
    /\ sql_context = NoRequest
    /\ act_answer = NotAsked.kind
    /\ generated_sql = << >>
    /\ decision = "none"
    /\ executed = << >>
    /\ engine = NoEngine
    /\ log = << >>
    /\ result = NoResult
    /\ prev = NoPrev

\* The state after one call of execute_prompt
Becomes(which, prompt, r_act, c) ==
    /\ db' = c.db
    /\ impl' = which
    /\ user_prompt' = prompt
    /\ subcalls' = c.subcalls
    /\ sql_context' = c.sql_context
    /\ act_answer' = r_act.kind
    /\ generated_sql' = c.generated_sql
    /\ decision' = c.decision
    /\ executed' = c.executed
    /\ engine' = c.engine
    /\ log' = c.log
    /\ result' = c.result
    /\ prev' = Remember(c)
    /\ UNCHANGED table_names

\* agent.execute_prompt(prompt) of main.py.  The service answers the calls
\* that are made: THINK is not asked once REASON has raised, ACT is not asked
\* once either has.
MainExecutePrompt ==
    \E prompt \in Prompts, r_reason \in SubResponses,
       r_think \in SubResponses \cup {NotAsked},
       r_act \in ActResponses \cup {NotAsked} :
        /\ r_think = NotAsked <=> llm_call(r_reason).raised
        /\ r_act = NotAsked <=>
              (llm_call(r_reason).raised \/ llm_call(r_think).raised)
        /\ Becomes("main", prompt, r_act,
                main_execute_prompt(db, table_names, prompt,
                                    r_reason, r_think, r_act))

\* agent.execute_prompt(prompt) of sample.py
SampleExecutePrompt ==
    \E prompt \in Prompts, r_act \in ActResponses :
        Becomes("sample", prompt, r_act,
                sample_execute_prompt(db, table_names, prompt, r_act))

Next == MainExecutePrompt \/ SampleExecutePrompt

Spec == Init /\ [][Next]_vars

---------------------------------------------------------------------------
(* Properties                                                              *)

Gated == decision # "none"
Candidate == generated_sql[1]

\* sub in s
Contains(s, sub) ==
    \E k \in 0..(Len(s) - Len(sub)) :
        \A i \in 1..Len(sub) : s[k + i] = sub[i]

\* The request carries the value in one of its replacement fields.
Carries(request, value) ==
    \E i \in 1..Len(request.system \o request.contents) :
        (request.system \o request.contents)[i] = Val(value)

\* C1: in every request cycle the candidate statement is passed to
\* cursor.execute if and only if the gate accepted it, and what is passed is
\* exactly the candidate text: a rejected candidate, and a cycle that never
\* reached the gate, execute nothing.
C1_ExecutedIffAccepted ==
    /\ decision = "accepted" => executed = generated_sql /\ Len(executed) = 1
    /\ decision # "accepted" => executed = << >>

C1_Witness ==
    /\ decision = "accepted"
    /\ generated_sql = << SqlLowerCase >>
    /\ executed = << SqlLowerCase >>

\* C2: the gate accepts a candidate exactly when the candidate, uppercased
\* and stripped, begins with "SELECT" or with "PRAGMA TABLE_INFO".
C2_AcceptsExactlyAllowList ==
    Gated =>
        (decision = "accepted"
            <=> \/ StartsWith(normalized_sql(Candidate), <<"S", "E", "L", "E", "C", "T">>)
                \/ StartsWith(normalized_sql(Candidate), <<"P", "R", "A", "G", "M", "A", " ", "T", "A", "B", "L", "E", "_", "I", "N", "F", "O">>))

\* C3: whatever candidate the completion step returned, execute_prompt
\* returns a str that is the table text, the "no results" message, the
\* rejection message or the execution-error message; it returns nothing
\* else and raises nothing.
C3_OneOfFourOutcomes ==
    generated_sql # << >> =>
        /\ result.kind = "return"
        /\ result.type = "str"
        /\ result.site \in {"table", "no_results", "rejected", "error"}

\* C4: the rejection message returned to the caller names the violating
\* command, the first token of the rejected statement (as generated, or as
\* normalized).
C4_RejectionNamesCommand ==
    (decision = "rejected" /\ result.kind = "return"
        /\ Split(Candidate) # << >>) =>
        \/ Contains(result.text, Split(Candidate)[1])
        \/ Contains(result.text, Split(normalized_sql(Candidate))[1])

\* C5: when the completion call that generates the candidate fails, the
\* requester returns its sentinel text instead of raising, the gate rejects
\* that text, nothing is executed and the caller receives the rejection
\* message.
C5_FailureBecomesRejection ==
    act_answer \in {"no_text", "APIError", "ConnectError"} =>
        /\ generated_sql # << >>
        /\ decision = "rejected"
        /\ executed = << >>
        /\ result.kind = "return" /\ result.site = "rejected"

\* C6: when the engine fails on an accepted statement, execute_prompt
\* returns a message that contains the engine's error text; nothing is
\* raised to the caller and the statement was passed to the engine once.
C6_EngineErrorIsReturned ==
    (decision = "accepted" /\ engine.raised) =>
        /\ result.kind = "return" /\ result.type = "str"
        /\ result.site = "error"
        /\ Contains(result.text, engine.msg)
        /\ Len(executed) = 1

C6_Witness ==
    /\ decision = "accepted"
    /\ engine.raised /\ engine.cls = "ProgrammingError"
    /\ result.site = "error"
    /\ executed = << SqlStacked >>

\* C7: an accepted statement that executes and yields zero rows ends in the
\* "no results" message, never in a table, an error or a raw empty list.
C7_ZeroRowsIsNoResults ==
    (decision = "accepted" /\ ~engine.raised /\ engine.rows = << >>) =>
        result = ReturnStr("no_results", NoResultsMessage)

\* str.split(sep)
RECURSIVE SplitOn(_, _)
SplitOn(s, sep) ==
    LET at(k) == \A i \in 1..Len(sep) : s[k + i] = sep[i]
        hits == { k \in 0..(Len(s) - Len(sep)) : at(k) }
        first == CHOOSE k \in hits : \A j \in hits : k <= j
    IN  IF hits = { } THEN << s >>
        ELSE << SubSeq(s, 1, first) >>
             \o SplitOn(SubSeq(s, first + Len(sep) + 1, Len(s)), sep)

\* Re-parsing a rendered table: the lines, of which the first is the header,
\* the second the separator and the others the records; the cells of a line
\* are what " | " separates (main.py: between the leading "| " and the
\* trailing " |", after the three lines of "\n\nFINAL ANSWER:\n").
TableLines(which, text) ==
    LET lines == SplitOn(text, <<"LF">>)
    IN  IF which = "main" THEN SubSeq(lines, 4, Len(lines)) ELSE lines

Cells(which, line) ==
    IF which = "main"
    THEN SplitOn(SubSeq(line, 3, Len(line) - 2), <<" ", "|", " ">>)
    ELSE SplitOn(line, <<" ", "|", " ">>)

ParseHeader(which, text) == Cells(which, TableLines(which, text)[1])

ParseRows(which, text) ==
    LET lines == TableLines(which, text)
    IN  [i \in 1..(Len(lines) - 2) |-> Cells(which, lines[i + 2])]

\* C8: rendering a result set of at least one row and one column and
\* re-parsing the text recovers the column names and the string form of
\* every value, in order.
C8_RoundTrip ==
    result.site = "table" =>
        /\ ParseHeader(impl, result.text) = engine.description
        /\ ParseRows(impl, result.text)
              = [i \in 1..Len(engine.rows) |-> StrRow(engine.rows[i])]

\* C9: two request cycles whose generated statement is the same text reach
\* the same gate decision, whatever the REASON and THINK sub-calls returned.
C9_DecisionDependsOnTextAlone ==
    prev.same => prev.decision = decision

C9_Witness ==
    /\ prev.same /\ prev.other_subcalls
    /\ impl = "main"
    /\ subcalls = << MainSentinel, MainSentinel >>
    /\ decision = "accepted"
    /\ prev.decision = "accepted"

\* C10: the context sent with the completion call that produces the
\* candidate holds the schema description built from the catalog in this
\* cycle, and the user request.
C10_ContextHoldsSchema ==
    act_answer # NotAsked.kind =>
        /\ Carries(sql_context, get_schema_description(db, table_names))
        /\ Carries(sql_context, user_prompt)

\* C11: after any sequence of execute_prompt calls the database is the one
\* _setup_database built: the same set of tables, each with the same
\* columns and the same rows, whatever the candidates were and however each
\* call ended (accepted or rejected, answered, failed or raised).
C11_DatabaseUnchanged ==
    /\ db = SetupDatabase
    /\ DOMAIN db = { <<"E", "m", "p", "l", "o", "y", "e", "e", "s">>, <<"D", "e", "p", "a", "r", "t", "m", "e", "n", "t", "s">> }

\* A stacked candidate passed the gate and reached cursor.execute, after an
\* earlier cycle on the same agent gated the same text.
C11_Witness ==
    /\ prev.same
    /\ generated_sql = << SqlStacked >>
    /\ decision = "accepted"
    /\ executed = << SqlStacked >>
    /\ engine.raised
    /\ HasTable(db, <<"E", "m", "p", "l", "o", "y", "e", "e", "s">>)

=============================================================================
